---- MODULE Spec2Model ----
(***************************************************************************)
(* Model of autofocus (src/src/main.cpp): the frame-number parser, the     *)
(* sharpness score, the directory scan with its sort, the result writer    *)
(* and the driver with its exit status.                                    *)
(*                                                                         *)
(* Strings and paths are sequences of one-character strings.  A file of    *)
(* the frames directory is a record [name, image]; image is the Laplacian  *)
(* response grid OpenCV computes for the file's picture, flattened, and    *)
(* the empty sequence when the file cannot be decoded.                     *)
(***************************************************************************)
EXTENDS Integers, Sequences, FiniteSets

VARIABLES
    pc,          \* position of the run (or of the single call, in ParseSpec / SharpSpec)
    argc,        \* main's argc
    dirExists,   \* whether argv[1] denotes an existing directory
    canOpen,     \* whether argv[2] can be opened for writing
    entries,     \* the directory's files, in the order directory_iterator delivers them
    idx,         \* index of the entry the range-for of analyse_frames is at
    result,      \* analyse_frames' local vector
    frames,      \* write_results' parameter (the returned vector)
    wi,          \* index of the frame the range-for of write_results is at
    outFile,     \* the result file: [exists, content]
    prevFile,    \* the result file as it was before the run
    thrown,      \* the exception in flight
    stdout,      \* messages printed by main's handler
    exits,       \* statuses main has returned
    arg,         \* argument of the call under ParseSpec / SharpSpec
    ret          \* result of that call

vars == <<pc, argc, dirExists, canOpen, entries, idx, result, frames, wi,
          outFile, prevFile, thrown, stdout, exits, arg, ret>>

runVars == <<argc, dirExists, canOpen, entries, idx, result, frames, wi,
             outFile, prevFile, thrown, stdout, exits>>

----------------------------------------------------------------------------
(* Bounds and program constants *)

MaxBody == 6
MaxGrid == 3
MaxEntries == 3

\* std::size_t frame_number_digits = 5
DefaultFrameNumberDigits == 5

EXIT_SUCCESS == 0
EXIT_FAILURE == 1

----------------------------------------------------------------------------
(* Characters and strings *)

Digits == {"0", "1", "2", "3", "4", "5", "6", "7", "8", "9"}

DigitValue(c) ==
    CASE c = "0" -> 0 [] c = "1" -> 1 [] c = "2" -> 2 [] c = "3" -> 3
      [] c = "4" -> 4 [] c = "5" -> 5 [] c = "6" -> 6 [] c = "7" -> 7
      [] c = "8" -> 8 [] c = "9" -> 9

DigitChar(d) ==
    CASE d = 0 -> "0" [] d = 1 -> "1" [] d = 2 -> "2" [] d = 3 -> "3"
      [] d = 4 -> "4" [] d = 5 -> "5" [] d = 6 -> "6" [] d = 7 -> "7"
      [] d = 8 -> "8" [] d = 9 -> "9"

\* Index of the last occurrence of c in s, 0 when there is none.
LastIndexOf(s, c) ==
    LET hits == {i \in 1..Len(s) : s[i] = c}
    IN  IF hits = {} THEN 0 ELSE CHOOSE i \in hits : \A j \in hits : j <= i

\* std::filesystem::path::filename(): what follows the last directory separator.
filename(p) == SubSeq(p, LastIndexOf(p, "/") + 1, Len(p))

\* std::filesystem::path::extension(): from the last period of the filename to
\* its end; empty when there is no period, when the only period is the first
\* character, and for the special names "." and "..".
extension(p) ==
    LET n == filename(p)
        d == LastIndexOf(n, ".")
    IN  IF d <= 1 \/ n = <<".", ".">> THEN <<>> ELSE SubSeq(n, d, Len(n))

\* Position one past the run of decimal digits of str that starts at first
\* and lies before last (positions are 1-based, last is exclusive).
RECURSIVE DigitRunEnd(_, _, _)
DigitRunEnd(str, first, last) ==
    IF first < last /\ str[first] \in Digits
    THEN DigitRunEnd(str, first + 1, last)
    ELSE first

\* Base-10 value of str[first .. last-1], accumulated left to right.
RECURSIVE Accumulate(_, _, _, _)
Accumulate(str, first, last, acc) ==
    IF first >= last THEN acc
    ELSE Accumulate(str, first + 1, last, acc * 10 + DigitValue(str[first]))

\* std::from_chars(first, last, value) for an unsigned type, base 10: no sign
\* is recognised; the longest run of digits at first is converted; ec is
\* invalid_argument only when that run is empty.  ptr is where parsing
\* stopped.  (A run of at most frame_number_digits digits precedes the
\* extension, so result_out_of_range does not arise for a 64-bit size_t.)
from_chars(str, first, last) ==
    LET ptr == DigitRunEnd(str, first, last)
    IN  IF ptr = first
        THEN [ec |-> "invalid_argument", value |-> 0, ptr |-> first]
        ELSE [ec |-> "ok", value |-> Accumulate(str, first, ptr, 0), ptr |-> ptr]

Value(n) == [kind |-> "value", value |-> n]
Error(what) == [kind |-> "error", what |-> what]

InvalidFileName == "invalid filename"
FrameNumberParse == "unable to parse frame number from file"
ImageOpen == "error while opening image"
InvalidDirectory == "invalid data directory"
ResultFileOpen == "unable to open result file"
InvalidArguments == "invalid arguments"

----------------------------------------------------------------------------
(* extract_frame_number *)

\* Mutant: the start index forgets the extension.
extract_frame_number_no_ext(filepath, frame_number_digits) ==
    LET str == filepath
    IN  IF Len(str) <= Len(extension(filepath)) + frame_number_digits
        THEN Error(InvalidFileName)
        ELSE LET start_index == Len(str) - frame_number_digits
                 r == from_chars(str, start_index + 1, Len(str) + 1)
             IN  IF r.ec # "ok" THEN Error(FrameNumberParse) ELSE Value(r.value)

\* The first throw passes two arguments to std::runtime_error, which has no
\* such constructor; it is modelled as the throw of the invalid-filename
\* message that it is written to be.
\* The length test and the slice are taken on the whole path string
\* (filepath.u8string()), the extension on its last component; from_chars
\* runs from start_index to the end of the string and only ec is inspected.
extract_frame_number(filepath, frame_number_digits) ==
    LET extensionSize == Len(extension(filepath))
        str == filepath
    IN  IF Len(str) <= extensionSize + frame_number_digits
        THEN Error(InvalidFileName)
        ELSE LET start_index == Len(str) - extensionSize - frame_number_digits
                 r == from_chars(str, start_index + 1, Len(str) + 1)
             IN  IF r.ec # "ok" THEN Error(FrameNumberParse) ELSE Value(r.value)

----------------------------------------------------------------------------
(* Inputs of the parser *)

SeqsUpTo(S, n) == UNION {[1..k -> S] : k \in 0..n}

BodyChars == {"0", "9", "a", "."}
Suffixes == {<<>>, <<".", "p">>}
DirParts == {<<>>, <<"d", "/">>, <<"f", "0", "9", "a", "/">>}

\* File names: a body over BodyChars followed by a suffix; never empty and
\* never one of the special names.
FileNames ==
    {b \o s : b \in SeqsUpTo(BodyChars, MaxBody), s \in Suffixes}
        \ {<<>>, <<".">>, <<".", ".">>}

ParsePaths == {d \o n : d \in DirParts, n \in FileNames}

NoRet == [kind |-> "none"]

IdleRun ==
    /\ argc = 0 /\ dirExists = FALSE /\ canOpen = FALSE /\ entries = <<>>
    /\ idx = 0 /\ result = <<>> /\ frames = <<>> /\ wi = 0
    /\ outFile = [exists |-> FALSE, content |-> <<>>]
    /\ prevFile = [exists |-> FALSE, content |-> <<>>]
    /\ thrown = "" /\ stdout = <<>> /\ exits = <<>>

ParseInit ==
    /\ pc = "call_extract"
    /\ arg \in ParsePaths
    /\ ret = NoRet
    /\ IdleRun

call_extract_frame_number ==
    /\ pc = "call_extract"
    /\ ret' = extract_frame_number(arg, DefaultFrameNumberDigits)
    /\ pc' = "extracted"
    /\ UNCHANGED <<arg, runVars>>

ParseNext == call_extract_frame_number

ParseSpec == ParseInit /\ [][ParseNext]_vars

----------------------------------------------------------------------------
(* calculate_sharpness *)

\* read_image: cv::imread yields an empty matrix for a file it cannot decode.
read_image(image) ==
    IF Len(image) = 0 THEN Error(ImageOpen) ELSE Value(image)

\* cv::minMaxLoc over the whole grid: the smallest and the largest element.
RECURSIVE minMaxLoc(_, _, _, _)
minMaxLoc(grid, i, min_val, max_val) ==
    IF i > Len(grid) THEN [min_val |-> min_val, max_val |-> max_val]
    ELSE minMaxLoc(grid, i + 1,
                   IF grid[i] < min_val THEN grid[i] ELSE min_val,
                   IF grid[i] > max_val THEN grid[i] ELSE max_val)

Abs(x) == IF x < 0 THEN -x ELSE x

\* Mutant: the peak magnitude (largest absolute value) is returned.
calculate_sharpness_abs(image) ==
    LET img == read_image(image)
    IN  IF img.kind = "error" THEN img
        ELSE LET m == minMaxLoc(image, 2, image[1], image[1])
             IN  Value(IF Abs(m.min_val) > Abs(m.max_val)
                       THEN Abs(m.min_val) ELSE Abs(m.max_val))

\* The blur, the grey conversion and the Laplacian are OpenCV's; image is
\* their outcome, the CV_16S response grid.  The score is max_val.
calculate_sharpness(image) ==
    LET img == read_image(image)
    IN  IF img.kind = "error" THEN img
        ELSE Value(minMaxLoc(image, 2, image[1], image[1]).max_val)

GridVals == {-8, -2, 0, 3}

\* Response grids of a picture: with a replicated border the Laplacian is
\* >= 0 at a darkest pixel and <= 0 at a brightest one.
Grids ==
    {g \in SeqsUpTo(GridVals, MaxGrid) :
        /\ g # <<>>
        /\ \E i \in 1..Len(g) : g[i] >= 0
        /\ \E i \in 1..Len(g) : g[i] <= 0}

SharpInit ==
    /\ pc = "call_sharpness"
    /\ arg \in Grids \cup {<<>>}
    /\ ret = NoRet
    /\ IdleRun

call_calculate_sharpness ==
    /\ pc = "call_sharpness"
    /\ ret' = calculate_sharpness(arg)
    /\ pc' = "scored"
    /\ UNCHANGED <<arg, runVars>>

SharpNext == call_calculate_sharpness

SharpSpec == SharpInit /\ [][SharpNext]_vars

----------------------------------------------------------------------------
(* analyse_frame, analyse_frames *)

\* argv[1], and the path directory_iterator reports for an entry.
FramesDirectory == <<"f", "r">>
EntryPath(entry) == FramesDirectory \o <<"/">> \o entry.name

\* The initialisers run in order: the number first, then the sharpness.
analyse_frame(entry) ==
    LET number == extract_frame_number(EntryPath(entry), DefaultFrameNumberDigits)
    IN  IF number.kind = "error" THEN number
        ELSE LET sharpness == calculate_sharpness(entry.image)
             IN  IF sharpness.kind = "error" THEN sharpness
                 ELSE Value([number |-> number.value, sharpness |-> sharpness.value])

Permutations(n) == {f \in [1..n -> 1..n] : \A i, j \in 1..n : i # j => f[i] # f[j]}

\* Mutant: the vector is returned in enumeration order.
sort_by_number_skipped(v) == {v}

\* std::sort with the comparator lhs.number < rhs.number: some permutation of
\* v ordered by number; the order of records with equal numbers is not fixed.
sort_by_number(v) ==
    {w \in {[i \in 1..Len(v) |-> v[f[i]]] : f \in Permutations(Len(v))} :
        \A i \in 1..(Len(w) - 1) : ~(w[i + 1].number < w[i].number)}

Throw(what) ==
    /\ thrown' = what
    /\ pc' = "catch"

\* parse_args: exactly two arguments besides the program name.
parse_args ==
    /\ pc = "parse_args"
    /\ IF argc # 3
       THEN Throw(InvalidArguments)
       ELSE pc' = "is_directory" /\ UNCHANGED thrown
    /\ UNCHANGED <<argc, dirExists, canOpen, entries, idx, result, frames, wi,
                   outFile, prevFile, stdout, exits, arg, ret>>

\* Mutant: the directory test is missing.
analyse_frames_enter_unchecked ==
    /\ pc = "is_directory"
    /\ pc' = "iterate" /\ result' = <<>> /\ idx' = 1
    /\ UNCHANGED <<argc, dirExists, canOpen, entries, frames, wi,
                   outFile, prevFile, thrown, stdout, exits, arg, ret>>

\* analyse_frames up to the loop: the directory test, the empty vector.
analyse_frames_enter ==
    /\ pc = "is_directory"
    /\ IF ~dirExists
       THEN Throw(InvalidDirectory) /\ UNCHANGED <<result, idx>>
       ELSE pc' = "iterate" /\ result' = <<>> /\ idx' = 1 /\ UNCHANGED thrown
    /\ UNCHANGED <<argc, dirExists, canOpen, entries, frames, wi,
                   outFile, prevFile, stdout, exits, arg, ret>>

\* Mutant: an entry that cannot be analysed is skipped.
analyse_frames_entry_skip ==
    /\ pc = "iterate"
    /\ idx <= Len(entries)
    /\ LET r == analyse_frame(entries[idx])
       IN  /\ result' = IF r.kind = "error" THEN result ELSE Append(result, r.value)
           /\ idx' = idx + 1
    /\ UNCHANGED <<pc, argc, dirExists, canOpen, entries, frames, wi,
                   outFile, prevFile, thrown, stdout, exits, arg, ret>>

\* One pass of the loop: result.emplace_back(analyse_frame(entry.path())).
analyse_frames_entry ==
    /\ pc = "iterate"
    /\ idx <= Len(entries)
    /\ LET r == analyse_frame(entries[idx])
       IN  IF r.kind = "error"
           THEN Throw(r.what) /\ UNCHANGED <<result, idx>>
           ELSE /\ result' = Append(result, r.value)
                /\ idx' = idx + 1
                /\ UNCHANGED <<pc, thrown>>
    /\ UNCHANGED <<argc, dirExists, canOpen, entries, frames, wi,
                   outFile, prevFile, stdout, exits, arg, ret>>

\* After the last entry: the sort, and the return into write_results' parameter.
analyse_frames_return ==
    /\ pc = "iterate"
    /\ idx > Len(entries)
    /\ \E sorted \in sort_by_number(result) :
          /\ result' = sorted
          /\ frames' = sorted
    /\ pc' = "open"
    /\ UNCHANGED <<argc, dirExists, canOpen, entries, idx, wi,
                   outFile, prevFile, thrown, stdout, exits, arg, ret>>

----------------------------------------------------------------------------
(* write_results *)

\* fmt's "{}" of an unsigned integer: its decimal digits.
RECURSIVE FormatUnsigned(_)
FormatUnsigned(n) ==
    IF n < 10 THEN <<DigitChar(n)>>
    ELSE FormatUnsigned(n \div 10) \o <<DigitChar(n % 10)>>

\* fmt's "{}" of a double holding an integral value (a CV_16S response):
\* a minus sign when negative, then the digits.
FormatDouble(v) ==
    IF v < 0 THEN <<"-">> \o FormatUnsigned(-v) ELSE FormatUnsigned(v)

\* fmt::format("{}\t{}\n", frame.number, frame.sharpness)
FormatFrame(frame) ==
    FormatUnsigned(frame.number) \o <<"\t">> \o FormatDouble(frame.sharpness) \o <<"\n">>

\* Mutant: the stream is opened for appending.
write_results_open_append ==
    /\ pc = "open"
    /\ IF ~canOpen
       THEN Throw(ResultFileOpen) /\ UNCHANGED <<outFile, wi>>
       ELSE /\ outFile' = [exists |-> TRUE, content |-> outFile.content]
            /\ wi' = 1
            /\ pc' = "write"
            /\ UNCHANGED thrown
    /\ UNCHANGED <<argc, dirExists, canOpen, entries, idx, result, frames,
                   prevFile, stdout, exits, arg, ret>>

\* std::ofstream(filepath): creates the file or truncates it; !ofs throws.
write_results_open ==
    /\ pc = "open"
    /\ IF ~canOpen
       THEN Throw(ResultFileOpen) /\ UNCHANGED <<outFile, wi>>
       ELSE /\ outFile' = [exists |-> TRUE, content |-> <<>>]
            /\ wi' = 1
            /\ pc' = "write"
            /\ UNCHANGED thrown
    /\ UNCHANGED <<argc, dirExists, canOpen, entries, idx, result, frames,
                   prevFile, stdout, exits, arg, ret>>

\* One pass of the loop: ofs << fmt::format(...).
write_results_frame ==
    /\ pc = "write"
    /\ wi <= Len(frames)
    /\ outFile' = [outFile EXCEPT !.content = @ \o FormatFrame(frames[wi])]
    /\ wi' = wi + 1
    /\ UNCHANGED <<pc, argc, dirExists, canOpen, entries, idx, result, frames,
                   prevFile, thrown, stdout, exits, arg, ret>>

----------------------------------------------------------------------------
(* main *)

\* Mutant: the handler returns EXIT_SUCCESS.
main_catch_success ==
    /\ pc = "catch"
    /\ stdout' = Append(stdout, thrown)
    /\ exits' = Append(exits, EXIT_SUCCESS)
    /\ pc' = "done"
    /\ UNCHANGED <<argc, dirExists, canOpen, entries, idx, result, frames, wi,
                   outFile, prevFile, thrown, arg, ret>>

\* catch (std::exception const & e): print e.what(), return EXIT_FAILURE.
main_catch ==
    /\ pc = "catch"
    /\ stdout' = Append(stdout, thrown)
    /\ exits' = Append(exits, EXIT_FAILURE)
    /\ pc' = "done"
    /\ UNCHANGED <<argc, dirExists, canOpen, entries, idx, result, frames, wi,
                   outFile, prevFile, thrown, arg, ret>>

\* write_results has written every frame: the stream closes, main returns.
main_return ==
    /\ pc = "write"
    /\ wi > Len(frames)
    /\ exits' = Append(exits, EXIT_SUCCESS)
    /\ pc' = "done"
    /\ UNCHANGED <<argc, dirExists, canOpen, entries, idx, result, frames, wi,
                   outFile, prevFile, thrown, stdout, arg, ret>>

----------------------------------------------------------------------------
(* The run *)

PoolNames ==
    { <<"f", "0", "0", "0", "0", "2", ".", "p">>,
      <<"f", "0", "0", "0", "0", "1", ".", "p">>,
      <<"g", "0", "0", "0", "0", "1", ".", "p">>,
      <<"f", "a", "0", "0", "0", "1", ".", "p">>,
      <<"x", ".", "p">> }

PoolImages == {<<>>, <<0, 3>>, <<-8, 0>>}

PoolFiles == [name : PoolNames, image : PoolImages]

\* What directory_iterator can deliver: the files of a directory, whose
\* names differ, in any order.
Listings ==
    {l \in SeqsUpTo(PoolFiles, MaxEntries) :
        \A i, j \in 1..Len(l) : i # j => l[i].name # l[j].name}

\* A result file left by an earlier run.
OldContent == <<"7", "\t", "1", "\n">>

ResultFiles ==
    {[exists |-> FALSE, content |-> <<>>], [exists |-> TRUE, content |-> OldContent]}

Init ==
    /\ pc = "parse_args"
    /\ argc \in {2, 3, 4}
    /\ dirExists \in BOOLEAN
    /\ canOpen \in BOOLEAN
    /\ entries \in (IF dirExists THEN Listings ELSE {<<>>})
    /\ idx = 0 /\ result = <<>> /\ frames = <<>> /\ wi = 0
    /\ outFile \in ResultFiles
    /\ prevFile = outFile
    /\ thrown = "" /\ stdout = <<>> /\ exits = <<>>
    /\ arg = <<>> /\ ret = NoRet

Next ==
    \/ parse_args
    \/ analyse_frames_enter
    \/ analyse_frames_entry
    \/ analyse_frames_return
    \/ write_results_open
    \/ write_results_frame
    \/ main_return
    \/ main_catch

Spec == Init /\ [][Next]_vars

----------------------------------------------------------------------------
(* write_results on its own, called with any vector *)

FrameNumbers == {0, 10, 907}
Sharpnesses == {0, 35, -8}
FrameInfos == [number : FrameNumbers, sharpness : Sharpnesses]

WriteInit ==
    /\ pc = "open"
    /\ argc = 3
    /\ dirExists = TRUE
    /\ canOpen \in BOOLEAN
    /\ entries = <<>>
    /\ idx = 0 /\ result = <<>> /\ wi = 0
    /\ frames \in SeqsUpTo(FrameInfos, MaxEntries)
    /\ outFile \in ResultFiles
    /\ prevFile = outFile
    /\ thrown = "" /\ stdout = <<>> /\ exits = <<>>
    /\ arg = <<>> /\ ret = NoRet

WriteNext ==
    \/ write_results_open
    \/ write_results_frame
    \/ main_return
    \/ main_catch

WriteSpec == WriteInit /\ [][WriteNext]_vars

----------------------------------------------------------------------------
(* Reading names, numbers and result files, for the properties below *)

RECURSIVE Pow10(_)
Pow10(k) == IF k = 0 THEN 1 ELSE 10 * Pow10(k - 1)

\* Value of a digit string by place: the sum of digit * 10^(places to its right).
RECURSIVE PlaceValue(_, _)
PlaceValue(t, i) ==
    IF i > Len(t) THEN 0
    ELSE DigitValue(t[i]) * Pow10(Len(t) - i) + PlaceValue(t, i + 1)

AllDigits(t) == \A i \in 1..Len(t) : t[i] \in Digits

\* Whether the last component of p is longer than its extension plus W
\* characters, and then the W characters right before the extension.
HasField(p) == Len(filename(p)) > Len(extension(p)) + DefaultFrameNumberDigits

Field(p) ==
    LET n == filename(p)
        e == extension(p)
    IN  SubSeq(n, Len(n) - Len(e) - DefaultFrameNumberDigits + 1, Len(n) - Len(e))

FirstIndexOf(s, c) ==
    LET hits == {i \in 1..Len(s) : s[i] = c}
    IN  IF hits = {} THEN 0 ELSE CHOOSE i \in hits : \A j \in hits : i <= j

\* The lines of a text, each with its terminator (a last line may lack one).
RECURSIVE SplitLines(_)
SplitLines(s) ==
    IF s = <<>> THEN <<>>
    ELSE LET k == FirstIndexOf(s, "\n")
         IN  IF k = 0 THEN <<s>>
             ELSE <<SubSeq(s, 1, k)>> \o SplitLines(SubSeq(s, k + 1, Len(s)))

IsUnsignedText(t) == t # <<>> /\ AllDigits(t) /\ (Len(t) = 1 \/ t[1] # "0")

IsSignedText(t) ==
    /\ t # <<>>
    /\ IF t[1] = "-" THEN IsUnsignedText(Tail(t)) ELSE IsUnsignedText(t)

ReadSigned(t) == IF t[1] = "-" THEN 0 - PlaceValue(Tail(t), 1) ELSE PlaceValue(t, 1)

Malformed == [number |-> 0 - 1, sharpness |-> 0]

\* The record a line "<number>\t<sharpness>\n" states; Malformed for any other line.
ReadLine(l) ==
    LET t == FirstIndexOf(l, "\t")
    IN  IF /\ l[Len(l)] = "\n"
           /\ t > 0
           /\ IsUnsignedText(SubSeq(l, 1, t - 1))
           /\ IsSignedText(SubSeq(l, t + 1, Len(l) - 1))
        THEN [number |-> PlaceValue(SubSeq(l, 1, t - 1), 1),
              sharpness |-> ReadSigned(SubSeq(l, t + 1, Len(l) - 1))]
        ELSE Malformed

ReadRecords(content) ==
    LET ls == SplitLines(content)
    IN  [i \in 1..Len(ls) |-> ReadLine(ls[i])]

Analysed(i) == analyse_frame(entries[i])
Failing == {i \in 1..Len(entries) : Analysed(i).kind = "error"}
FirstFailure == CHOOSE i \in Failing : \A j \in Failing : i <= j

Occurrences(v, r) == Cardinality({i \in 1..Len(v) : v[i] = r})

----------------------------------------------------------------------------
(* Properties *)

\* C1: when every entry of the directory is analysed successfully, the
\* sequence analyse_frames returns has one record per entry (each entry's
\* record as often as entries yield it, duplicates of a number kept), is
\* ordered by number (number[i] <= number[i+1]) whatever the enumeration
\* order, and the first fields of the lines of a written result file are
\* those numbers in that order.
C1_ReturnedSequenceIsSortedBag ==
    (pc \in {"open", "write", "done"} /\ argc = 3 /\ dirExists /\ Failing = {}) =>
        /\ Len(frames) = Len(entries)
        /\ \A i \in 1..Len(entries) :
              Occurrences(frames, Analysed(i).value)
                  = Cardinality({j \in 1..Len(entries) : Analysed(j) = Analysed(i)})
        /\ \A i \in 1..(Len(frames) - 1) : frames[i].number <= frames[i + 1].number
        /\ (pc = "done" /\ exits = <<EXIT_SUCCESS>>) =>
              LET recs == ReadRecords(outFile.content)
              IN  /\ Len(recs) = Len(frames)
                  /\ \A i \in 1..Len(recs) : recs[i].number = frames[i].number

\* Three entries delivered as 2, 1, 1 come out as 1, 1, 2 in the file.
C1_Witness ==
    /\ pc = "done" /\ exits = <<EXIT_SUCCESS>>
    /\ Len(entries) = 3 /\ Failing = {}
    /\ Analysed(1).value.number = 2
    /\ Analysed(2).value.number = 1
    /\ Analysed(3).value.number = 1
    /\ [i \in 1..3 |-> frames[i].number] = <<1, 1, 2>>
    /\ Len(SplitLines(outFile.content)) = 3

\* C2: for a path whose last component is <non-empty prefix><W digits>
\* <extension>, extract_frame_number returns the base-10 value of those W
\* digits (leading zeros add nothing), whatever the prefix and the directory
\* part hold, and the value is in 0 .. 10^W - 1.
C2_WellFormedNameGivesFieldValue ==
    (pc = "extracted" /\ HasField(arg) /\ AllDigits(Field(arg))) =>
        /\ ret = Value(PlaceValue(Field(arg), 1))
        /\ ret.value \in 0..(Pow10(DefaultFrameNumberDigits) - 1)

\* "f09a/a00099.p": digits in the directory part and zeros in front.
C2_Witness ==
    /\ pc = "extracted"
    /\ arg = <<"f", "0", "9", "a", "/", "a", "0", "0", "0", "9", "9", ".", "p">>
    /\ ret = Value(99)

\* C3: when the W characters right before the extension are not all decimal
\* digits, extract_frame_number fails with the frame-number parse error.
C3_NonDigitFieldIsParseError ==
    (pc = "extracted" /\ HasField(arg) /\ ~AllDigits(Field(arg))) =>
        ret = Error(FrameNumberParse)

\* C4: when the last component of the path is no longer than its extension
\* plus W, extract_frame_number fails with the invalid-file-name error,
\* whatever the directory part is.
C4_ShortNameIsInvalidFileName ==
    (pc = "extracted" /\ ~HasField(arg)) => ret = Error(InvalidFileName)

\* C5: when the analysis of some entry fails, the loop never goes past a
\* failing entry, nothing is returned to write_results, the result file
\* stays as it was, and the run ends at that entry with its message printed
\* and the failure status.
C5_FailFast ==
    (argc = 3 /\ dirExists /\ \E i \in 1..Len(entries) : Analysed(i).kind = "error") =>
        /\ pc \notin {"open", "write"}
        /\ frames = <<>>
        /\ outFile = prevFile
        /\ \A i \in 1..(idx - 1) : Analysed(i).kind = "value"
        /\ pc = "done" =>
              /\ idx = FirstFailure
              /\ stdout = <<Analysed(idx).what>>
              /\ exits = <<EXIT_FAILURE>>

\* A good entry, then an undecodable one, then a good one; an old result file.
C5_Witness ==
    /\ pc = "done"
    /\ Len(entries) = 3
    /\ Failing = {2}
    /\ thrown = ImageOpen
    /\ Len(result) = 1
    /\ prevFile.exists /\ outFile = prevFile
    /\ exits = <<EXIT_FAILURE>>

\* C6: when the input path is no existing directory, analyse_frames throws
\* the invalid-directory error before it enumerates or analyses anything,
\* and the result file is neither created nor changed.
C6_InvalidDirectoryLeavesOutput ==
    (argc = 3 /\ ~dirExists) =>
        /\ pc \in {"parse_args", "is_directory", "catch", "done"}
        /\ idx = 0 /\ result = <<>> /\ frames = <<>>
        /\ outFile = prevFile
        /\ pc \in {"catch", "done"} => thrown = InvalidDirectory
        /\ pc = "done" => stdout = <<InvalidDirectory>> /\ exits = <<EXIT_FAILURE>>

\* The result file could have been created, and was not.
C6_Witness ==
    /\ pc = "done" /\ argc = 3 /\ ~dirExists
    /\ canOpen /\ ~prevFile.exists /\ ~outFile.exists
    /\ exits = <<EXIT_FAILURE>>

\* C7: write_results, given any sequence, writes one line
\* "<number>\t<sharpness>\n" per element in the order given: while it writes,
\* the file holds exactly the lines of the elements written so far, and after
\* it the lines of all of them, with nothing of the file's earlier content.
C7_FileIsGivenSequence ==
    /\ pc = "write" =>
          /\ outFile.exists
          /\ ReadRecords(outFile.content) = SubSeq(frames, 1, wi - 1)
    /\ (pc = "done" /\ exits = <<EXIT_SUCCESS>>) =>
          /\ outFile.exists
          /\ ReadRecords(outFile.content) = frames

\* An unsorted sequence with a repeated number, over an old result file.
C7_Witness ==
    /\ pc = "done" /\ exits = <<EXIT_SUCCESS>>
    /\ prevFile.exists
    /\ frames = << [number |-> 907, sharpness |-> 35],
                   [number |-> 10, sharpness |-> 0 - 8],
                   [number |-> 907, sharpness |-> 0] >>
    /\ Len(SplitLines(outFile.content)) = 3

\* C8 as stated: on an existing directory without entries the run ends with
\* a zero-line result file and the success status.
C8_EmptyDirectoryAlwaysSucceeds ==
    (pc = "done" /\ argc = 3 /\ dirExists /\ entries = <<>>) =>
        /\ outFile = [exists |-> TRUE, content |-> <<>>]
        /\ exits = <<EXIT_SUCCESS>>

\* C8, amended: on an existing directory without entries analyse_frames
\* returns the empty sequence without error; if the result file can be
\* opened, the run ends with a zero-line result file and the success status;
\* if it cannot, the run ends with the open error, the failure status and
\* the result file as it was.
C8_EmptyDirectory ==
    (argc = 3 /\ dirExists /\ entries = <<>>) =>
        /\ thrown \in {"", ResultFileOpen}
        /\ pc \in {"open", "write", "done"} => frames = <<>>
        /\ (pc = "done" /\ canOpen) =>
              /\ outFile.exists
              /\ SplitLines(outFile.content) = <<>>
              /\ stdout = <<>>
              /\ exits = <<EXIT_SUCCESS>>
        /\ (pc = "done" /\ ~canOpen) =>
              /\ outFile = prevFile
              /\ stdout = <<ResultFileOpen>>
              /\ exits = <<EXIT_FAILURE>>

\* An empty directory, and an old result file emptied by the run.
C8_Witness ==
    /\ pc = "done" /\ argc = 3 /\ dirExists /\ entries = <<>>
    /\ prevFile.exists /\ prevFile.content # <<>>
    /\ outFile = [exists |-> TRUE, content |-> <<>>]
    /\ exits = <<EXIT_SUCCESS>>

AllSucceeded == argc = 3 /\ dirExists /\ Failing = {} /\ canOpen

FailureMessage ==
    IF argc # 3 THEN InvalidArguments
    ELSE IF ~dirExists THEN InvalidDirectory
    ELSE IF Failing # {} THEN Analysed(FirstFailure).what
    ELSE ResultFileOpen

ExitStatusMatches ==
    /\ Len(exits) <= 1
    /\ pc = "done" <=> Len(exits) = 1
    /\ pc = "done" =>
          IF AllSucceeded
          THEN exits = <<EXIT_SUCCESS>> /\ stdout = <<>>
          ELSE exits[1] # 0 /\ stdout = <<FailureMessage>>

PcRank ==
    CASE pc = "parse_args" -> 6 [] pc = "is_directory" -> 5 [] pc = "iterate" -> 4
      [] pc = "open" -> 3 [] pc = "write" -> 2 [] pc = "catch" -> 1 [] pc = "done" -> 0

\* Steps the run can still take, at most.
StepsLeft ==
    PcRank * (Len(entries) + 2)
        + (IF pc = "iterate" THEN Len(entries) + 1 - idx
           ELSE IF pc = "write" THEN Len(frames) + 1 - wi
           ELSE 0)

\* The positions of a run that have a step: main has not returned there,
\* and the guards of the steps at each of them cover every state.
Running == {"parse_args", "is_directory", "iterate", "open", "write", "catch"}

\* C9: every run ends (main has returned or the run is at a position that
\* has a step, and each step lowers the natural number StepsLeft), with
\* exactly one exit status: zero exactly when the arguments, every entry and
\* the opening of the result file succeeded; in every other case the message
\* of the failure is printed and the status is not zero.
C9_TerminatesWithMatchingStatus ==
    /\ [](StepsLeft >= 0 /\ (pc = "done" \/ pc \in Running))
    /\ [][StepsLeft' < StepsLeft]_vars
    /\ []ExitStatusMatches

\* Two frames collected, and the result file cannot be opened.
C9_Witness ==
    /\ pc = "done"
    /\ Len(frames) = 2
    /\ ~canOpen
    /\ stdout = <<ResultFileOpen>>
    /\ exits = <<EXIT_FAILURE>>

\* C10: the score of a decodable frame is an element of its response grid
\* that no element exceeds: the largest signed value, not the largest
\* magnitude and not the smallest value.
C10_ScoreIsSignedMaximum ==
    (pc = "scored" /\ arg # <<>>) =>
        /\ ret.kind = "value"
        /\ \E i \in 1..Len(arg) : arg[i] = ret.value
        /\ \A i \in 1..Len(arg) : arg[i] <= ret.value

\* The value of largest magnitude is negative; the score is 3.
C10_Witness ==
    /\ pc = "scored"
    /\ arg = <<0 - 8, 3>>
    /\ ret = Value(3)

====
